---- MODULE Spec2Model ----
(***************************************************************************)
(* Model of the level-2 citation classifier (src/level2-analysis.py):      *)
(* identifier extraction, the cached metadata enrichment resolver, the     *)
(* heuristic label scorer with its book negative filters, the top-label    *)
(* resolution and the refine_csv loop that drives them.                    *)
(*                                                                         *)
(* Text is modelled as TLA+ strings, searched character by character; the  *)
(* regular expressions of the source are data (sequences of elements)      *)
(* interpreted by re_ends / re_search.                                     *)
(***************************************************************************)
EXTENDS Integers, Sequences, FiniteSets, TLC

VARIABLES
    pc,         \* position of the sequential program (refine_csv / one scorer call)
    row,        \* the record being processed
    meta,       \* enrichment metadata handed to classify_item
    labels,     \* score map returned by classify_item (insertion-ordered)
    top_label,  \* top label returned by classify_item
    rows,       \* number of rows refine_csv has started
    cache,      \* the in-memory metadata cache (key -> metadata or None)
    store,      \* the durable cache file (CACHE_FILE), as last written
    calls,      \* history: every enrich_metadata call so far
    results,    \* the classified rows refine_csv has appended
    th          \* concurrent callers of enrich_metadata (SpecConc only)

vars == <<pc, row, meta, labels, top_label, rows, cache, store, calls, results, th>>

-----------------------------------------------------------------------------
(* Python values that are not plain strings.                               *)

None == [k |-> "None"]
NaN == [k |-> "NaN"]
Str(s) == [k |-> "str", v |-> s]

-----------------------------------------------------------------------------
(* Characters and strings.                                                 *)

Digits == {"0", "1", "2", "3", "4", "5", "6", "7", "8", "9"}
LowerLetters ==
    {"a", "b", "c", "d", "e", "f", "g", "h", "i", "j", "k", "l", "m",
     "n", "o", "p", "q", "r", "s", "t", "u", "v", "w", "x", "y", "z"}
UpperLetters ==
    {"A", "B", "C", "D", "E", "F", "G", "H", "I", "J", "K", "L", "M",
     "N", "O", "P", "Q", "R", "S", "T", "U", "V", "W", "X", "Y", "Z"}
WordChars == Digits \cup LowerLetters \cup UpperLetters \cup {"_"}
Spaces == {" ", "\t", "\n"}

Min(a, b) == IF a < b THEN a ELSE b
Max(a, b) == IF a < b THEN b ELSE a

At(s, i) == IF i >= 1 /\ i <= Len(s) THEN SubSeq(s, i, i) ELSE ""

\* Python: sub in s
Contains(sub, s) ==
    \E i \in 1..(Len(s) - Len(sub) + 1) : SubSeq(s, i, i + Len(sub) - 1) = sub

LowerOf ==
    [ch \in UpperLetters |->
        CASE ch = "A" -> "a" [] ch = "B" -> "b" [] ch = "C" -> "c" [] ch = "D" -> "d"
          [] ch = "E" -> "e" [] ch = "F" -> "f" [] ch = "G" -> "g" [] ch = "H" -> "h"
          [] ch = "I" -> "i" [] ch = "J" -> "j" [] ch = "K" -> "k" [] ch = "L" -> "l"
          [] ch = "M" -> "m" [] ch = "N" -> "n" [] ch = "O" -> "o" [] ch = "P" -> "p"
          [] ch = "Q" -> "q" [] ch = "R" -> "r" [] ch = "S" -> "s" [] ch = "T" -> "t"
          [] ch = "U" -> "u" [] ch = "V" -> "v" [] ch = "W" -> "w" [] ch = "X" -> "x"
          [] ch = "Y" -> "y" [] ch = "Z" -> "z"]

lower_char(ch) == IF ch \in UpperLetters THEN LowerOf[ch] ELSE ch

RECURSIVE lower(_)
lower(s) == IF s = "" THEN "" ELSE lower_char(Head(s)) \o lower(Tail(s))

RECURSIVE lstrip(_)
lstrip(s) == IF s # "" /\ Head(s) \in Spaces THEN lstrip(Tail(s)) ELSE s

RECURSIVE rstrip(_)
rstrip(s) ==
    IF s # "" /\ At(s, Len(s)) \in Spaces THEN rstrip(SubSeq(s, 1, Len(s) - 1)) ELSE s

strip(s) == rstrip(lstrip(s))

-----------------------------------------------------------------------------
(* Regular expressions: a pattern is a sequence of elements.               *)

Lit(s) == [t |-> "lit", s |-> s]                    \* literal text
WB == [t |-> "b"]                                   \* \b
Bol == [t |-> "bol"]                                \* ^
Rep(cls, lo, hi) == [t |-> "rep", cls |-> cls, lo |-> lo, hi |-> hi]  \* greedy class run
Alt(alts) == [t |-> "alt", alts |-> alts]           \* (a|b|...)
Opt(re) == [t |-> "alt", alts |-> <<re, <<>>>>]     \* (...)?
Inf == 0 - 1                                         \* no upper limit of a repetition

\* \b at position i: exactly one of the characters before and at i is a word character
Boundary(s, i) == (At(s, i - 1) \in WordChars) # (At(s, i) \in WordChars)

RECURSIVE RunLen(_, _, _)
RunLen(cls, s, i) == IF At(s, i) \in cls THEN 1 + RunLen(cls, s, i + 1) ELSE 0

\* the positions at which a match of re[k..] that starts at i can end (exclusive)
RECURSIVE re_ends_from(_, _, _, _)
re_ends_from(re, k, s, i) ==
    IF k > Len(re) THEN {i}
    ELSE LET e == re[k]
         IN  CASE e.t = "lit" ->
                    IF i + Len(e.s) - 1 <= Len(s) /\ SubSeq(s, i, i + Len(e.s) - 1) = e.s
                    THEN re_ends_from(re, k + 1, s, i + Len(e.s)) ELSE {}
               [] e.t = "b" -> IF Boundary(s, i) THEN re_ends_from(re, k + 1, s, i) ELSE {}
               [] e.t = "bol" -> IF i = 1 THEN re_ends_from(re, k + 1, s, i) ELSE {}
               [] e.t = "rep" ->
                    LET n == RunLen(e.cls, s, i)
                        m == IF e.hi = Inf THEN n ELSE Min(n, e.hi)
                    IN  UNION {re_ends_from(re, k + 1, s, i + c) : c \in e.lo..m}
               [] e.t = "alt" ->
                    UNION {re_ends_from(re, k + 1, s, j) :
                              j \in UNION {re_ends_from(e.alts[a], 1, s, i) :
                                              a \in 1..Len(e.alts)}}

re_ends(re, s, i) == re_ends_from(re, 1, s, i)

\* the literal every match of re begins with ("" when re does not begin with one)
first_lit(re) ==
    IF re = <<>> THEN ""
    ELSE IF re[1].t = "lit" THEN re[1].s
    ELSE IF re[1].t \in {"b", "bol"} /\ Len(re) >= 2 /\ re[2].t = "lit" THEN re[2].s
    ELSE ""

\* the positions where a match of re begins; only positions where its first
\* literal occurs are tried
match_starts(re, s) ==
    LET l == first_lit(re)
    IN  {i \in 1..(Len(s) - Len(l) + 1) :
            SubSeq(s, i, i + Len(l) - 1) = l /\ re_ends(re, s, i) # {}}

\* re.search(p, text) is not None
re_search(re, s) == match_starts(re, s) # {}

\* match_any(patterns, text)
match_any(patterns, text) == \E k \in 1..Len(patterns) : re_search(patterns[k], text)

\* any(d in text for d in subs)
any_in(subs, text) == \E k \in 1..Len(subs) : Contains(subs[k], text)

-----------------------------------------------------------------------------
(* Helper functions of the source.                                         *)

LABEL_PRIORITY ==
    <<"patent", "thesis", "review", "conference", "journal", "book", "preprint", "unknown">>

\* LABEL_PRIORITY.index(x)
priority_index(x) == CHOOSE i \in 1..Len(LABEL_PRIORITY) : LABEL_PRIORITY[i] = x

\* str(x).strip().lower() if x is not None and not pd.isna(x) else ""
normalize(x) == IF x.k = "str" THEN lower(strip(x.v)) ELSE ""

is_patent_field(x) ==
    IF x.k # "str" THEN FALSE
    ELSE lower(strip(x.v)) \notin {"", "nan", "none", "0"}

\* Python truthiness of an optional string (None, NaN-free metadata values)
truthy(x) == x.k = "str" /\ x.v # ""

-----------------------------------------------------------------------------
(* The score map: a Python dict, kept in insertion order.                  *)

dict_keys(d) == [i \in 1..Len(d) |-> d[i].label]
dict_has(d, k) == \E i \in 1..Len(d) : d[i].label = k
dict_get(d, k, default) ==
    IF dict_has(d, k) THEN d[CHOOSE i \in 1..Len(d) : d[i].label = k].score ELSE default
dict_set(d, k, v) ==
    IF dict_has(d, k)
    THEN [i \in 1..Len(d) |-> IF d[i].label = k THEN [label |-> k, score |-> v] ELSE d[i]]
    ELSE Append(d, [label |-> k, score |-> v])
dict_pop(d, k) == SelectSeq(d, LAMBDA e : e.label # k)

\* faulty variant of raise_score: the scores of the matching rules add up
raise_sum(d, k, v) == dict_set(d, k, dict_get(d, k, 0) + v)

\* labels[k] = max(labels.get(k, 0), v)
raise_score(d, k, v) == dict_set(d, k, Max(dict_get(d, k, 0), v))

-----------------------------------------------------------------------------
(* Pattern tables of classify_item.                                        *)

DashSpace == Spaces \cup {"-"}

patent_patterns == <<
    <<Lit("patents.google.com")>>,
    <<Lit("lens.org")>>,
    <<Lit("uspto.gov")>>,
    <<WB, Lit("US"), Rep(DashSpace, 0, Inf), Rep(Digits, 1, Inf), Rep(DashSpace, 0, Inf),
      Rep({"A", "B"}, 1, 1), Rep(Digits, 1, Inf), WB>>,
    <<WB, Lit("EP"), Rep(DashSpace, 0, Inf), Rep(Digits, 1, Inf), WB>>,
    <<WB, Lit("WO"), Rep(DashSpace, 0, Inf), Rep(Digits, 1, Inf), WB>>,
    <<WB, Lit("CN"), Rep(DashSpace, 0, Inf), Rep(Digits, 1, Inf), WB>>,
    <<WB, Lit("KR"), Rep(DashSpace, 0, Inf), Rep(Digits, 1, Inf), WB>>,
    <<WB, Lit("JP"), Rep(DashSpace, 0, Inf), Rep(Digits, 1, Inf), WB>> >>

thesis_domains == <<
    "search.proquest.com", "pqdtopen.proquest.com", "theses.fr", "ethos.bl.uk",
    "dspace", "etd.", "repository.", "hdl.handle.net", "openscholarship",
    "escholarship", ".library." >>

thesis_title_pattern ==
    <<WB, Alt(<< <<Lit("thesis")>>, <<Lit("dissertation")>>, <<Lit("doctoral")>>,
                 <<Lit("phd")>>,
                 <<Lit("master"), Alt(<< <<Lit("'")>>, <<>> >>), Lit("s")>> >>), WB>>

thesis_abstract_patterns == <<
    <<Lit("submitted"), Rep(Spaces, 1, Inf), Alt(<< <<Lit("to")>>, <<Lit("by")>> >>)>>,
    <<Lit("in partial fulfillment of the requirements")>>,
    <<Lit("this "), Alt(<< <<Lit("thesis")>>, <<Lit("dissertation")>> >>)>> >>

thesis_container_pattern ==
    <<Alt(<< <<Lit("thesis")>>, <<Lit("dissertation")>>, <<Lit("submitted to")>>,
             <<Lit("graduate school")>>, <<Lit("department")>> >>)>>

SurveyOrReview == Alt(<< <<Lit("survey")>>, <<Lit("review")>> >>)

survey_phrases == <<
    <<Lit("in this survey")>>, <<Lit("in this review")>>,
    <<Lit("this survey")>>, <<Lit("this review")>>,
    <<Lit("this paper "),
      Alt(<< <<Lit("presents")>>, <<Lit("provides")>>, <<Lit("gives")>> >>), Lit(" "),
      Opt(<<Lit("a ")>>), Opt(<<Lit("comprehensive ")>>), SurveyOrReview>>,
    <<Lit("comprehensive survey")>>, <<Lit("systematic review")>>,
    <<Lit("literature review")>>, <<Lit("overview of the state of the art")>>,
    <<WB, Lit("we survey"), WB>>, <<WB, Lit("we review"), WB>> >>

review_title_prefix ==
    <<Bol, Alt(<< <<Lit("a"), Rep(Spaces, 1, Inf),
                    Opt(<<Lit("comprehensive"), Rep(Spaces, 1, Inf)>>), SurveyOrReview>>,
                  <<Lit("systematic review")>> >>)>>

review_title_words == << <<WB, Lit("survey"), WB>>, <<WB, Lit("review"), WB>> >>

review_title_excluded ==
    <<Alt(<< <<Lit("book review")>>, <<Lit("peer review")>>,
             <<Lit("double blind review")>> >>)>>

lncs_patterns == <<
    <<Lit("lecture notes in computer science")>>,
    <<Lit("lecture notes in artificial intelligence")>>,
    <<Lit("lecture notes in bioinformatics")>>,
    <<WB, Lit("lncs"), WB>>, <<WB, Lit("lnai"), WB>>, <<WB, Lit("lnbi"), WB>>,
    <<Lit("/chapter/10.1007/")>> >>

strong_doi_prefixes == <<"10.1007/978", "10.1016/B", "10.1201/", "10.1093/", "10.4324/">>

book_publishers ==
    <<"cambridge.org", "elsevier", "taylorandfrancis", "oxfordacademic", "crcpress",
      "routledge">>

book_keywords == <<
    <<WB, Lit("handbook"), WB>>, <<WB, Lit("encyclopedia"), WB>>,
    <<WB, Lit("textbook"), WB>>, <<WB, Lit("monograph"), WB>>,
    <<WB, Lit("springerbriefs"), WB>> >>

isbn_pattern ==
    <<WB, Lit("97"), Rep({"8", "9"}, 1, 1), Rep(Digits \cup {"-"}, 10, Inf), WB>>

-----------------------------------------------------------------------------
(* classify_item, rule family by rule family.                              *)

\* normalize(meta[f]) if meta and meta.get(f) else ""
meta_field(m, f) == IF m.k = "dict" /\ truthy(m[f]) THEN normalize(m[f]) ELSE ""

\* faulty variant of score_patent: only the first id field is looked at
score_patent_lens_id_only(d, lens_id, lens_pub_number, lens_family_id, tcau) ==
    IF is_patent_field(lens_id) \/ match_any(patent_patterns, tcau)
    THEN dict_set(d, "patent", 5)
    ELSE d

\* 1. Patent
score_patent(d, lens_id, lens_pub_number, lens_family_id, tcau) ==
    IF \/ is_patent_field(lens_id)
       \/ is_patent_field(lens_pub_number)
       \/ is_patent_field(lens_family_id)
       \/ match_any(patent_patterns, tcau)
    THEN dict_set(d, "patent", 5)
    ELSE d

\* 2. Thesis
score_thesis(d, t, c, a, u, meta_type) ==
    LET d1 == IF any_in(thesis_domains, u) THEN raise_score(d, "thesis", 5) ELSE d
        d2 == IF Contains("thesis", meta_type) \/ Contains("dissertation", meta_type)
              THEN raise_score(d1, "thesis", 5) ELSE d1
        d3 == IF re_search(thesis_title_pattern, t) THEN raise_score(d2, "thesis", 4) ELSE d2
        d4 == IF match_any(thesis_abstract_patterns, a)
              THEN raise_score(d3, "thesis", 5) ELSE d3
    IN  IF Contains("university", c) /\ re_search(thesis_container_pattern, c)
        THEN raise_score(d4, "thesis", 4) ELSE d4

\* 3. Review / Survey
score_review(d, t, a) ==
    LET d1 == IF match_any(survey_phrases, a) THEN raise_score(d, "review", 5) ELSE d
        d2 == IF re_search(review_title_prefix, t) THEN raise_score(d1, "review", 5) ELSE d1
    IN  IF match_any(review_title_words, t) /\ ~re_search(review_title_excluded, t)
        THEN raise_score(d2, "review", 4) ELSE d2

\* faulty variant of score_conference: the patterns are searched in the title only
score_conference_title_only(d, t, tcau, meta_venue_type) ==
    IF \/ match_any(lncs_patterns, t)
       \/ meta_venue_type = "conference"
       \/ Contains("proceedings", t)
    THEN raise_score(d, "conference", 4)
    ELSE d

\* 4. Conference
score_conference(d, t, tcau, meta_venue_type) ==
    IF \/ match_any(lncs_patterns, tcau)
       \/ meta_venue_type = "conference"
       \/ Contains("proceedings", t)
    THEN raise_score(d, "conference", 4)
    ELSE d

\* 5. Book
strong_book(c, u, meta_type) ==
    \/ meta_type \in {"book", "book-chapter", "edited-book", "monograph"}
    \/ any_in(strong_doi_prefixes, u)
    \/ re_search(isbn_pattern, c)
    \/ Contains("link.springer.com/book/", u)

medium_book(t, c, u, cr, meta_venue_type) ==
    \/ /\ any_in(book_publishers, u)
       /\ ~(\/ Contains("journal", c)
            \/ Contains("journal-article", cr)
            \/ meta_venue_type = "journal")
    \/ match_any(book_keywords, c)
    \/ match_any(book_keywords, t)

score_book(d, t, c, u, cr, meta_type, meta_venue_type) ==
    IF strong_book(c, u, meta_type) THEN raise_score(d, "book", 5)
    ELSE IF medium_book(t, c, u, cr, meta_venue_type) THEN raise_score(d, "book", 2)
    ELSE d

\* faulty variant of book_negative_filters: the filter on "journal"/"transactions" is missing
filters_without_journal(d, c, cr, meta_venue_type) ==
    LET d1 == IF Contains("lncs", c) \/ Contains("lecture notes in computer science", c)
              THEN dict_pop(d, "book") ELSE d
        d2 == IF meta_venue_type = "journal" \/ Contains("journal-article", cr)
              THEN dict_pop(d1, "book") ELSE d1
    IN  IF \/ Contains("symposium", c) \/ Contains("conference", c)
           \/ Contains("workshop", c) \/ Contains("proceedings", c)
        THEN dict_pop(d2, "book") ELSE d2

\* faulty variant of book_negative_filters: the filter on the venue type and the
\* prior type is missing
filters_without_prior_type(d, c, cr, meta_venue_type) ==
    LET d1 == IF Contains("lncs", c) \/ Contains("lecture notes in computer science", c)
              THEN dict_pop(d, "book") ELSE d
        d3 == IF Contains("journal", c) \/ Contains("transactions", c)
              THEN dict_pop(d1, "book") ELSE d1
    IN  IF \/ Contains("symposium", c) \/ Contains("conference", c)
           \/ Contains("workshop", c) \/ Contains("proceedings", c)
        THEN dict_pop(d3, "book") ELSE d3

\* Negative filters for book
book_negative_filters(d, c, cr, meta_venue_type) ==
    LET d1 == IF Contains("lncs", c) \/ Contains("lecture notes in computer science", c)
              THEN dict_pop(d, "book") ELSE d
        d2 == IF meta_venue_type = "journal" \/ Contains("journal-article", cr)
              THEN dict_pop(d1, "book") ELSE d1
        d3 == IF Contains("journal", c) \/ Contains("transactions", c)
              THEN dict_pop(d2, "book") ELSE d2
    IN  IF \/ Contains("symposium", c) \/ Contains("conference", c)
           \/ Contains("workshop", c) \/ Contains("proceedings", c)
        THEN dict_pop(d3, "book") ELSE d3

\* 6. Journal
score_journal(d, c, cr, meta_venue_type) ==
    LET d1 == IF meta_venue_type = "journal" \/ Contains("journal-article", cr)
              THEN raise_score(d, "journal", 4) ELSE d
    IN  IF Contains("journal", c) \/ Contains("transactions", c)
        THEN raise_score(d1, "journal", 3) ELSE d1

\* 7. Preprint
score_preprint(d, u) ==
    IF \/ Contains("researchgate.net", u) \/ Contains("academia.edu", u)
       \/ Contains("arxiv.org", u)
    THEN raise_score(d, "preprint", 3)
    ELSE d

\* faulty variant of score_unknown: unknown is added to every map
score_unknown_always(d) == dict_set(d, "unknown", 0)

\* 8. Unknown
score_unknown(d) == IF d = <<>> THEN dict_set(d, "unknown", 0) ELSE d

\* faulty variants of resolve_top: the first label of the order whether scored or not; the
\* best-scored label
top_of_order(d) == LABEL_PRIORITY[1]

top_by_score(d) ==
    LET ks == dict_keys(d)
    IN  ks[CHOOSE i \in 1..Len(ks) :
               \A j \in 1..Len(ks) :
                   \/ d[i].score > d[j].score
                   \/ d[i].score = d[j].score
                      /\ priority_index(ks[i]) <= priority_index(ks[j])]

\* sorted(labels.keys(), key=lambda x: LABEL_PRIORITY.index(x))[0]
resolve_top(d) ==
    LET ks == dict_keys(d)
    IN  ks[CHOOSE i \in 1..Len(ks) :
               \A j \in 1..Len(ks) : priority_index(ks[i]) <= priority_index(ks[j])]

\* faulty variant of fresh_labels: the map of the previous call is used again
stale_labels == labels

\* line 119: labels = {}, built anew by every call
fresh_labels == <<>>

classify_item(title, container, abstract, crossref_type, lens_id, lens_pub_number, lens_family_id, url, m) ==
    LET t == normalize(title)
        c == normalize(container)
        a == normalize(abstract)
        u == normalize(url)
        cr == normalize(crossref_type)
        tcau == t \o " " \o c \o " " \o a \o " " \o u \o " " \o cr
        meta_type == meta_field(m, "type")
        meta_venue_type == meta_field(m, "venue_type")
        l1 == score_patent(fresh_labels, lens_id, lens_pub_number, lens_family_id, tcau)
        l2 == score_thesis(l1, t, c, a, u, meta_type)
        l3 == score_review(l2, t, a)
        l4 == score_conference(l3, t, tcau, meta_venue_type)
        l5 == score_book(l4, t, c, u, cr, meta_type, meta_venue_type)
        l6 == book_negative_filters(l5, c, cr, meta_venue_type)
        l7 == score_journal(l6, c, cr, meta_venue_type)
        l8 == score_preprint(l7, u)
        l9 == score_unknown(l8)
    IN  [labels |-> l9, top_label |-> resolve_top(l9)]

-----------------------------------------------------------------------------
(* Identifier extraction.                                                  *)

SetMin(S) == CHOOSE x \in S : \A y \in S : x <= y
SetMax(S) == CHOOSE x \in S : \A y \in S : x >= y

\* 10\.\d{4,9}/[-._;()/:A-Z0-9]+ with re.I
doi_pattern ==
    <<Lit("10."), Rep(Digits, 4, 9), Lit("/"),
      Rep({"-", ".", "_", ";", "(", ")", "/", ":"} \cup UpperLetters \cup LowerLetters
              \cup Digits, 1, Inf)>>

\* arxiv\.org/(abs|pdf)/([0-9]+\.[0-9]+): the part before group 2, and group 2
arxiv_prefix == <<Lit("arxiv.org/"), Alt(<< <<Lit("abs")>>, <<Lit("pdf")>> >>), Lit("/")>>
arxiv_group == <<Rep(Digits, 1, Inf), Lit("."), Rep(Digits, 1, Inf)>>

\* m.group(0) of the leftmost match; the greedy final run takes the longest end
extract_doi_from_url(url) ==
    LET u == normalize(url)
        starts == match_starts(doi_pattern, u)
    IN  IF starts = {} THEN None
        ELSE LET i == SetMin(starts)
             IN  Str(SubSeq(u, i, SetMax(re_ends(doi_pattern, u, i)) - 1))

\* m.group(2) of the leftmost match
extract_arxiv_id(url) ==
    LET u == normalize(url)
        starts == match_starts(arxiv_prefix \o arxiv_group, u)
    IN  IF starts = {} THEN None
        ELSE LET i == SetMin(starts)
                 g == SetMin(re_ends(arxiv_prefix, u, i))
             IN  Str(SubSeq(u, g, SetMax(re_ends(arxiv_group, u, g)) - 1))

\* f"doi:{doi}" if doi else f"arxiv:{arxiv_id}" if arxiv_id else None
cache_key(doi, arxiv_id) ==
    IF truthy(doi) THEN Str("doi:" \o doi.v)
    ELSE IF truthy(arxiv_id) THEN Str("arxiv:" \o arxiv_id.v)
    ELSE None

-----------------------------------------------------------------------------
(* The bibliographic services: what a request can come back with.          *)

\* JSON values: None (null), Str, a non-empty list, an object
JList == [k |-> "list"]
JObj(f) == [k |-> "obj", f |-> f]
EmptyObj == JObj([x \in {} |-> None])
Raised == [k |-> "raise"]

\* obj.get(key) / obj.get(key, default)
json_get(o, key, default) == IF key \in DOMAIN o.f THEN o.f[key] ELSE default

\* Python truthiness
py_truthy(v) ==
    CASE v.k = "None" -> FALSE
      [] v.k = "str" -> v.v # ""
      [] v.k = "list" -> TRUE
      [] v.k = "obj" -> DOMAIN v.f # {}
      [] v.k = "dict" -> TRUE
      [] v.k = "NaN" -> TRUE

\* x or y
py_or(x, y) == IF py_truthy(x) THEN x ELSE y

\* a response: the request raised (timeout, network error), a non-200 status,
\* a 200 whose body is no JSON, or a 200 with a JSON body
Timeout == [kind |-> "timeout"]
Status404 == [kind |-> "status"]
BadJson == [kind |-> "badjson"]
Json(body) == [kind |-> "json", body |-> body]

query_openalex(doi, arxiv_id, r) ==
    IF ~truthy(doi) /\ ~truthy(arxiv_id) THEN None
    ELSE IF r.kind = "json" THEN r.body
    ELSE None

query_crossref(doi, r) ==
    IF r.kind = "json" /\ r.body.k = "obj" THEN json_get(r.body, "message", EmptyObj)
    ELSE None

\* the result record built from an OpenAlex payload (lines 89-94)
from_openalex(m) ==
    IF m.k # "obj" THEN Raised
    ELSE LET hv0 == json_get(m, "host_venue", None)
             hv == IF py_truthy(hv0) THEN hv0 ELSE EmptyObj
         IN  IF hv.k # "obj" THEN Raised
             ELSE [k |-> "dict", source |-> "openalex",
                   type |-> json_get(m, "type", None),
                   venue_type |-> json_get(hv, "type", None),
                   publisher |-> json_get(hv, "publisher", None)]

\* the result record built from a Crossref message (lines 99-104)
from_crossref(m) ==
    IF m.k # "obj" THEN Raised
    ELSE [k |-> "dict", source |-> "crossref",
          type |-> json_get(m, "type", None),
          venue_type |-> None,
          publisher |-> json_get(m, "publisher", None)]

-----------------------------------------------------------------------------
(* enrich_metadata, run to completion by one caller.                       *)

\* the cache file: missing, unreadable as JSON, or the JSON object last dumped
NoFile == [k |-> "absent"]
CorruptFile == [k |-> "corrupt"]
json_dump(ch) == [k |-> "json", v |-> ch]
EmptyCache == [x \in {} |-> None]

\* lines 249-256: the cache refine_csv starts from
load_cache(st) == IF st.k = "json" THEN st.v ELSE EmptyCache

\* faulty variant of cache_has: a cached None does not count as a hit
cache_has_truthy(ch, key) ==
    key.k = "str" /\ key.v \in DOMAIN ch /\ py_truthy(ch[key.v])

\* line 82: key and key in cache
cache_has(ch, key) == key.k = "str" /\ key.v \in DOMAIN ch

\* faulty variants of cache_put: the write is forgotten; the write replaces the cache
cache_put_skip(ch, key, v) == ch

cache_put_only(ch, key, v) == [x \in {key.v} |-> v]

\* line 107: cache[key] = result
cache_put(ch, key, v) == [x \in DOMAIN ch \cup {key.v} |-> IF x = key.v THEN v ELSE ch[x]]

\* lines 85-94: the primary lookup
primary_lookup(doi, arxiv_id, oa) ==
    IF truthy(doi) \/ truthy(arxiv_id)
    THEN LET m == query_openalex(doi, arxiv_id, oa)
         IN  [net |-> <<"openalex">>,
              result |-> IF py_truthy(m) THEN from_openalex(m) ELSE None]
    ELSE [net |-> <<>>, result |-> None]

\* faulty variant of secondary_lookup: the fallback is tried for every DOI
secondary_always(doi, result, cr) ==
    IF truthy(doi)
    THEN LET m == query_crossref(doi, cr)
         IN  [net |-> <<"crossref">>,
              result |-> IF py_truthy(m) THEN from_crossref(m) ELSE result]
    ELSE [net |-> <<>>, result |-> result]

\* lines 96-104: the fallback lookup
secondary_lookup(doi, result, cr) ==
    IF truthy(doi) /\ ~py_truthy(result)
    THEN LET m == query_crossref(doi, cr)
         IN  [net |-> <<"crossref">>,
              result |-> IF py_truthy(m) THEN from_crossref(m) ELSE result]
    ELSE [net |-> <<>>, result |-> result]

\* lines 80-111 of enrich_metadata, the identifiers extracted: what the call
\* returns (or that it raised), the cache and the cache file afterwards, the
\* requests it made and whether the primary service gave a payload (line 88),
\* when the services answer oa and cr
resolve(doi, arxiv_id, ch, st, oa, cr) ==
    LET key == cache_key(doi, arxiv_id)
        p == primary_lookup(doi, arxiv_id, oa)
        q == secondary_lookup(doi, p.result, cr)
    IN  IF cache_has(ch, key)
        THEN [key |-> key, hit |-> TRUE, raised |-> FALSE, primary |-> FALSE,
              value |-> ch[key.v],
              net |-> <<>>, cache |-> ch, store |-> st]
        ELSE IF p.result = Raised
        THEN [key |-> key, hit |-> FALSE, raised |-> TRUE, primary |-> p.result # None,
              value |-> None,
              net |-> p.net, cache |-> ch, store |-> st]
        ELSE IF q.result = Raised
        THEN [key |-> key, hit |-> FALSE, raised |-> TRUE, primary |-> p.result # None,
              value |-> None,
              net |-> p.net \o q.net, cache |-> ch, store |-> st]
        ELSE IF truthy(key)
        THEN [key |-> key, hit |-> FALSE, raised |-> FALSE, primary |-> p.result # None,
              value |-> q.result,
              net |-> p.net \o q.net,
              cache |-> cache_put(ch, key, q.result),
              store |-> json_dump(cache_put(ch, key, q.result))]
        ELSE [key |-> key, hit |-> FALSE, raised |-> FALSE, primary |-> p.result # None,
              value |-> q.result,
              net |-> p.net \o q.net, cache |-> ch, store |-> st]

enrich_metadata(url, ch, st, oa, cr) ==
    resolve(extract_doi_from_url(url), extract_arxiv_id(url), ch, st, oa, cr)

-----------------------------------------------------------------------------
(* Inputs.                                                                 *)

MaxRows == 3

Row(title, container, abstract, crossref_type, lens, url) ==
    [citing_title |-> title, citing_container |-> container,
     citing_abstract |-> abstract, crossref_type |-> crossref_type,
     lens_id |-> lens[1], lens_publication_number |-> lens[2],
     lens_family_id |-> lens[3], citing_url |-> url]

NoRow == Row(None, None, None, None, <<None, None, None>>, None)

Titles ==
    {NaN,
     Str("A Survey of Graph Neural Networks"),
     Str("Book review: Handbook of EP1234567"),
     Str("PhD thesis, Proceedings")}

Containers ==
    {NaN,
     Str("Journal 9781234567890"),
     Str("Lecture Notes in Computer Science, vol. 123"),
     Str("LNAI 978-3-540-12345-6"),
     Str("Springer 9781234567890"),
     Str("X University department"),
     Str("IEEE Transactions"),
     Str("Workshop 9781234567890")}

Abstracts == {NaN, Str("We review; submitted by WO 2020123")}

Urls ==
    {NaN,
     Str("https://patents.google.com/patent/US1234567B2"),
     Str("doi.org/10.1016/B978-0-1"),
     Str("arxiv.org/abs/2101.00001"),
     Str("link.springer.com/chapter/10.1007/978-3"),
     Str("www.cambridge.org/x"),
     Str("etd.x.edu/1")}

CrossrefTypes == {NaN, Str("journal-article")}

\* the three patent-registry id fields
LensIds ==
    {<<None, None, None>>,
     <<NaN, Str(" None "), Str("0")>>,
     <<Str("123-456-789-000"), NaN, None>>,
     <<Str(""), Str("US 1234567 B2"), NaN>>,
     <<Str("nan"), None, Str("0.0")>>}

\* what enrich_metadata can hand to the scorer
Metas ==
    {None,
     [k |-> "dict", source |-> "openalex", type |-> Str("Book-Chapter"),
      venue_type |-> None, publisher |-> Str("Springer")],
     [k |-> "dict", source |-> "openalex", type |-> Str("journal-article"),
      venue_type |-> Str("journal"), publisher |-> None],
     [k |-> "dict", source |-> "openalex", type |-> Str(""),
      venue_type |-> Str("Conference"), publisher |-> None],
     [k |-> "dict", source |-> "crossref", type |-> Str("dissertation"),
      venue_type |-> None, publisher |-> None]}

\* the id fields and the metadata of a call: every id triple without metadata,
\* and every metadata with no id and with a populated id
IdsAndMeta ==
    (LensIds \X {None})
        \cup ({<<None, None, None>>, <<Str(""), Str("US 1234567 B2"), NaN>>} \X Metas)

ClassifyInputs ==
    {[row |-> Row(t, c, a, cr, lm[1], u), meta |-> lm[2]] :
        t \in Titles, c \in Containers, a \in Abstracts, cr \in CrossrefTypes,
        u \in Urls, lm \in IdsAndMeta}

-----------------------------------------------------------------------------
(* One call of the scorer on an arbitrary record.                          *)

InitClassify ==
    /\ pc = "call"
    /\ \E x \in ClassifyInputs : row = x.row /\ meta = x.meta
    /\ labels = <<>>
    /\ top_label = ""
    /\ rows = 0
    /\ cache = EmptyCache
    /\ store = NoFile
    /\ calls = <<>>
    /\ results = <<>>
    /\ th = <<>>

Score ==
    /\ pc = "call"
    /\ \E r \in {classify_item(row.citing_title, row.citing_container, row.citing_abstract,
                              row.crossref_type, row.lens_id, row.lens_publication_number,
                              row.lens_family_id, row.citing_url, meta)} :
           /\ labels' = r.labels
           /\ top_label' = r.top_label
    /\ pc' = "returned"
    /\ UNCHANGED <<row, meta, rows, cache, store, calls, results, th>>

NextClassify == Score

SpecClassify == InitClassify /\ [][NextClassify]_vars

-----------------------------------------------------------------------------
(* refine_csv: the rows of the input file, one after the other.            *)

NoLens == <<None, None, None>>

PipelineRows ==
    {Row(Str("A Survey of Graph Neural Networks"), NaN, NaN, NaN, NoLens, NaN),
     Row(NaN, Str("Springer 9781234567890"), NaN, NaN, NoLens,
         Str("https://doi.org/10.1007/978-3-030-1")),
     Row(Str("Handbook"), NaN, NaN, Str("journal-article"), <<Str(""), NaN, None>>,
         Str(" HTTPS://DOI.ORG/10.1007/978-3-030-1 ")),
     Row(NaN, NaN, NaN, NaN, NoLens, Str("https://arxiv.org/abs/2101.00001")),
     Row(NaN, NaN, NaN, NaN, <<Str("0"), Str("0"), Str("1-2")>>,
         Str("arxiv.org/pdf/2101.00001?doi=10.48550/arxiv.2101.00001")),
     Row(Str("Untitled note"), NaN, NaN, NaN, NoLens, Str("example.org/note"))}

OpenAlexResponses ==
    {Timeout, Status404, BadJson, Json(JList), Json(EmptyObj),
     Json(JObj([type |-> Str("book-chapter")])),
     Json(JObj([type |-> Str("article"),
                host_venue |-> JObj([type |-> Str("journal"),
                                     publisher |-> Str("Elsevier")])])),
     Json(JObj([type |-> Str("article"), host_venue |-> Str("Nature")]))}

CrossrefResponses ==
    {Timeout, Status404, BadJson, Json(JList),
     Json(JObj([status |-> Str("ok")])),
     Json(JObj([message |-> JObj([type |-> Str("book"), publisher |-> Str("CRC")])])),
     Json(JObj([message |-> JList]))}

\* the cache file the run finds
InitialStores ==
    {NoFile, CorruptFile,
     json_dump([x \in {"doi:10.1007/978-3-030-1"} |-> None])}

\* faulty variant of join: only the first name is written
join_first(ks, sep) == IF ks = <<>> THEN "" ELSE ks[1]

\* line 274: ";".join(labels.keys())
RECURSIVE join(_, _)
join(ks, sep) ==
    IF ks = <<>> THEN ""
    ELSE IF Len(ks) = 1 THEN ks[1]
    ELSE ks[1] \o sep \o join(Tail(ks), sep)

Init ==
    /\ pc = "loop"
    /\ row = NoRow
    /\ meta = None
    /\ labels = <<>>
    /\ top_label = ""
    /\ rows = 0
    /\ store \in InitialStores
    /\ cache = load_cache(store)
    /\ calls = <<>>
    /\ results = <<>>
    /\ th = <<>>

\* line 260: the next row of the data frame
NextRow ==
    /\ pc = "loop"
    /\ rows < MaxRows
    /\ row' \in PipelineRows
    /\ rows' = rows + 1
    /\ pc' = "enrich"
    /\ UNCHANGED <<meta, labels, top_label, cache, store, calls, results, th>>

\* line 261: meta = enrich_metadata(row.get("citing_url", ""), cache)
Enrich ==
    /\ pc = "enrich"
    /\ \E doi \in {extract_doi_from_url(row.citing_url)},
          arxiv_id \in {extract_arxiv_id(row.citing_url)},
          oa \in OpenAlexResponses, cr \in CrossrefResponses :
         \E o \in {resolve(doi, arxiv_id, cache, store, oa, cr)} :
            /\ calls' = Append(calls, [key |-> o.key, hit |-> o.hit, raised |-> o.raised,
                                       primary |-> o.primary,
                                       net |-> o.net, value |-> o.value])
            /\ cache' = o.cache
            /\ store' = o.store
            /\ meta' = IF o.raised THEN meta ELSE o.value
            /\ pc' = IF o.raised THEN "crashed" ELSE "classify"
    /\ UNCHANGED <<row, labels, top_label, rows, results, th>>

\* lines 262-277: classify the row and append the classified record
Classify ==
    /\ pc = "classify"
    /\ \E r \in {classify_item(row.citing_title, row.citing_container, row.citing_abstract,
                               row.crossref_type,
                               py_or(row.lens_id, None),
                               py_or(row.lens_publication_number, None),
                               py_or(row.lens_family_id, None),
                               row.citing_url, meta)} :
         /\ labels' = r.labels
         /\ top_label' = r.top_label
         /\ results' = Append(results, [row |-> row,
                                        labels |-> join(dict_keys(r.labels), ";"),
                                        label_confidence |-> r.labels,
                                        top_label |-> r.top_label])
    /\ pc' = "loop"
    /\ UNCHANGED <<row, meta, rows, cache, store, calls, th>>

\* lines 279-288: the data frame is exhausted, the outputs are written
Finish ==
    /\ pc = "loop"
    /\ pc' = "done"
    /\ UNCHANGED <<row, meta, labels, top_label, rows, cache, store, calls, results, th>>

Next == NextRow \/ Enrich \/ Classify \/ Finish

Spec == Init /\ [][Next]_vars

-----------------------------------------------------------------------------
(* Two callers of enrich_metadata on one shared cache, statement by        *)
(* statement: the source takes no lock around the sequence.                *)

Callers == {1, 2}

ConcUrls ==
    {Str("https://doi.org/10.1007/978-3-030-1"),
     Str(" HTTPS://DOI.ORG/10.1007/978-3-030-1 "),
     Str("https://arxiv.org/abs/2101.00001")}

Caller(url) ==
    [pc |-> "start", url |-> url, doi |-> None, arxiv_id |-> None, key |-> None,
     result |-> None, net |-> <<>>, ret |-> None]

InitConc ==
    /\ pc = "threads"
    /\ row = NoRow
    /\ meta = None
    /\ labels = <<>>
    /\ top_label = ""
    /\ rows = 0
    /\ store \in InitialStores
    /\ cache = load_cache(store)
    /\ calls = <<>>
    /\ results = <<>>
    /\ th \in [Callers -> {Caller(u) : u \in ConcUrls}]

\* lines 78-83: extract the identifiers, look the key up in the cache
c_check(t) ==
    /\ th[t].pc = "start"
    /\ \E doi \in {extract_doi_from_url(th[t].url)},
          arxiv_id \in {extract_arxiv_id(th[t].url)} :
         LET key == cache_key(doi, arxiv_id)
         IN  th' = [th EXCEPT ![t] =
                       IF cache_has(cache, key)
                       THEN [@ EXCEPT !.pc = "done", !.doi = doi, !.arxiv_id = arxiv_id,
                                      !.key = key, !.ret = cache[key.v]]
                       ELSE [@ EXCEPT !.pc = "primary", !.doi = doi,
                                      !.arxiv_id = arxiv_id, !.key = key]]
    /\ UNCHANGED <<pc, row, meta, labels, top_label, rows, cache, store, calls, results>>

\* lines 85-94: the request to the primary service
c_primary(t) ==
    /\ th[t].pc = "primary"
    /\ \E oa \in OpenAlexResponses :
         LET p == primary_lookup(th[t].doi, th[t].arxiv_id, oa)
         IN  th' = [th EXCEPT ![t] =
                       IF p.result = Raised
                       THEN [@ EXCEPT !.pc = "raised", !.net = @ \o p.net]
                       ELSE [@ EXCEPT !.pc = "secondary", !.net = @ \o p.net,
                                      !.result = p.result]]
    /\ UNCHANGED <<pc, row, meta, labels, top_label, rows, cache, store, calls, results>>

\* lines 96-104: the request to the secondary service
c_secondary(t) ==
    /\ th[t].pc = "secondary"
    /\ \E cr \in CrossrefResponses :
         LET q == secondary_lookup(th[t].doi, th[t].result, cr)
         IN  th' = [th EXCEPT ![t] =
                       IF q.result = Raised
                       THEN [@ EXCEPT !.pc = "raised", !.net = @ \o q.net]
                       ELSE [@ EXCEPT !.pc = "write", !.net = @ \o q.net,
                                      !.result = q.result]]
    /\ UNCHANGED <<pc, row, meta, labels, top_label, rows, cache, store, calls, results>>

\* lines 106-107: cache[key] = result
c_write(t) ==
    /\ th[t].pc = "write"
    /\ cache' = IF truthy(th[t].key) THEN cache_put(cache, th[t].key, th[t].result)
                ELSE cache
    /\ th' = [th EXCEPT ![t].pc = IF truthy(th[t].key) THEN "persist" ELSE "done",
                        ![t].ret = th[t].result]
    /\ UNCHANGED <<pc, row, meta, labels, top_label, rows, store, calls, results>>

\* lines 108-111: dump the cache to the cache file and return
c_persist(t) ==
    /\ th[t].pc = "persist"
    /\ store' = json_dump(cache)
    /\ th' = [th EXCEPT ![t].pc = "done"]
    /\ UNCHANGED <<pc, row, meta, labels, top_label, rows, cache, calls, results>>

NextConc ==
    \E t \in Callers :
        c_check(t) \/ c_primary(t) \/ c_secondary(t) \/ c_write(t) \/ c_persist(t)

SpecConc == InitConc /\ [][NextConc]_vars

-----------------------------------------------------------------------------
(* Properties of the scorer (checked under SpecClassify).                  *)

Returned == pc = "returned"
LabelSet == {labels[i].label : i \in 1..Len(labels)}
PositiveLabels == {labels[i].label : i \in {j \in 1..Len(labels) : labels[j].score > 0}}

\* the normalized text fields of the record
Title == normalize(row.citing_title)
Container == normalize(row.citing_container)
Abstract == normalize(row.citing_abstract)
Url == normalize(row.citing_url)
PriorType == normalize(row.crossref_type)
Surface == Title \o " " \o Container \o " " \o Abstract \o " " \o Url \o " " \o PriorType

\* a patent-registry id field that is populated: a string that, trimmed and
\* lower-cased, is neither empty nor "0", "nan" or "none"
Populated(x) == x.k = "str" /\ lower(strip(x.v)) \notin {"", "0", "nan", "none"}
AnyPatentId ==
    \/ Populated(row.lens_id)
    \/ Populated(row.lens_publication_number)
    \/ Populated(row.lens_family_id)

\* C1: whatever the record, the top label returned by classify_item is one of the
\* labels of the returned score map, and that map is never empty.
C1_TopLabelAmongLabels == Returned => (LabelSet # {} /\ top_label \in LabelSet)

\* C1 witness: a record on which no rule fires comes back as {unknown} / unknown.
C1_Witness == Returned /\ LabelSet = {"unknown"} /\ top_label = "unknown"

\* C2: a record with any populated patent-registry id field gets top label
\* "patent", whatever else is scored.
C2_PatentIdWins == (Returned /\ AnyPatentId) => top_label = "patent"

\* C2 witness: only the publication number is populated, nothing else speaks for
\* a patent, other labels reach score 5, and the top label is patent.
C2_Witness ==
    /\ Returned
    /\ ~Populated(row.lens_id) /\ Populated(row.lens_publication_number)
    /\ ~match_any(patent_patterns, Surface)
    /\ dict_get(labels, "thesis", 0) = 5 /\ dict_get(labels, "review", 0) = 5
    /\ top_label = "patent"

\* the label of S that comes earliest in LABEL_PRIORITY
Earliest(S) == CHOOSE l \in S : \A m \in S : priority_index(l) <= priority_index(m)

\* C3: the top label is the earliest label of the fixed order among the labels
\* with a positive score ("unknown" when there is none), whatever the scores are.
C3_TopIsEarliestPositive ==
    Returned =>
        IF PositiveLabels # {} THEN top_label = Earliest(PositiveLabels)
        ELSE top_label = "unknown"

\* C3 witness: the top label has a lower score than a label later in the order.
C3_Witness ==
    /\ Returned
    /\ top_label = "conference"
    /\ dict_get(labels, "conference", 0) = 4
    /\ dict_get(labels, "book", 0) = 5

\* C4: a record whose container contains "journal" never carries the book label.
C4_JournalContainerNoBook ==
    (Returned /\ Contains("journal", Container)) => "book" \notin LabelSet

\* C4 witness: the container names a journal and holds an ISBN-shaped token, the
\* URL carries a book DOI prefix, and the result has journal but not book.
C4_Witness ==
    /\ Returned
    /\ Contains("journal", Container)
    /\ re_search(isbn_pattern, Container)
    /\ any_in(strong_doi_prefixes, Url)
    /\ "journal" \in LabelSet /\ "book" \notin LabelSet

\* the lecture-notes series names and abbreviations of the conference rule
lecture_notes_family == SubSeq(lncs_patterns, 1, 6)

\* C5: a record whose container matches the lecture-notes series pattern family
\* of the conference rule never carries the book label.
C5_LectureNotesNoBook ==
    (Returned /\ match_any(lecture_notes_family, Container)) => "book" \notin LabelSet

-----------------------------------------------------------------------------
(* Properties of the enrichment cache (checked under Spec and SpecConc).   *)

NCalls == Len(calls)
SameKey(i, j) == truthy(calls[i].key) /\ calls[i].key = calls[j].key
IsDoiKey(key) == truthy(key) /\ Len(key.v) >= 4 /\ SubSeq(key.v, 1, 4) = "doi:"
\* the calls for the key of call i that went to the network
LookupsFor(i) == {j \in 1..NCalls : SameKey(i, j) /\ calls[j].net # <<>>}

\* C6: of two calls of enrich_metadata for the same identifier, the later one is a
\* cache hit that makes no request and returns what the earlier one returned; a
\* call that finds its identifier not cached makes the lookup (primary service
\* first), and it is the only call for that identifier that ever goes to the network.
C6_OneLookupPerIdentifier ==
    /\ \A i, j \in 1..NCalls :
          (i < j /\ SameKey(i, j)) =>
              /\ calls[j].hit
              /\ calls[j].net = <<>>
              /\ calls[j].value = calls[i].value
    /\ \A i \in 1..NCalls :
          (truthy(calls[i].key) /\ ~calls[i].hit) =>
              /\ calls[i].net # <<>> /\ calls[i].net[1] = "openalex"
              /\ LookupsFor(i) = {i}

\* C6 witness: the first call misses and looks the identifier up, the second call
\* (the same DOI behind a differently written URL) is served from the cache.
C6_Witness ==
    /\ NCalls >= 2 /\ Len(results) >= 2
    /\ SameKey(1, 2)
    /\ ~calls[1].hit /\ calls[1].net # <<>> /\ calls[1].value # None
    /\ calls[2].hit /\ calls[2].net = <<>> /\ calls[2].value = calls[1].value
    /\ results[1].row.citing_url # results[2].row.citing_url

\* a DOI lookup that failed: both services were asked and gave nothing
FailedDoiLookup(i) ==
    /\ IsDoiKey(calls[i].key)
    /\ ~calls[i].hit /\ ~calls[i].raised
    /\ calls[i].net = <<"openalex", "crossref">>
    /\ calls[i].value = None

\* C7: after a failed lookup for a DOI the cache holds None under that DOI's key,
\* and every later call for the DOI returns None without any request, whatever
\* the services would answer then.
C7_FailedLookupStaysNone ==
    \A i \in 1..NCalls :
        FailedDoiLookup(i) =>
            /\ cache_has(cache, calls[i].key)
            /\ cache[calls[i].key.v] = None
            /\ \A j \in (i + 1)..NCalls :
                  SameKey(i, j) => (calls[j].value = None /\ calls[j].net = <<>>)

\* C7 witness: a failed DOI lookup followed by two more calls for the same DOI.
C7_Witness ==
    /\ NCalls = 3
    /\ FailedDoiLookup(1)
    /\ SameKey(1, 2) /\ SameKey(1, 3)
    /\ calls[2].value = None /\ calls[3].value = None
    /\ calls[2].net = <<>> /\ calls[3].net = <<>>

\* C8: a key of the cache is never removed and its value never changes, a None
\* value included.
C8_CacheEntriesPermanent ==
    [][\A k \in DOMAIN cache : k \in DOMAIN cache' /\ cache'[k] = cache[k]]_vars

\* C8 witness: an entry written as None in this run is still there, unchanged,
\* after a later call wrote another key.
C8_Witness ==
    \E i, j \in 1..NCalls :
        /\ i < j
        /\ truthy(calls[i].key) /\ ~calls[i].hit /\ calls[i].value = None
        /\ truthy(calls[j].key) /\ ~calls[j].hit /\ ~calls[j].raised
        /\ calls[j].key # calls[i].key
        /\ cache[calls[i].key.v] = None
        /\ calls[j].key.v \in DOMAIN cache

\* C9: two concurrent callers never both look the same identifier up, and an
\* entry a finished caller wrote is in the cache and in the cache file as written.
C9_CallersSerialized ==
    /\ \A t1, t2 \in Callers :
          (t1 # t2 /\ truthy(th[t1].key) /\ th[t1].key = th[t2].key) =>
              ~(th[t1].net # <<>> /\ th[t2].net # <<>>)
    /\ \A t \in Callers :
          (th[t].pc = "done" /\ th[t].net # <<>>) =>
              /\ cache_has(cache, th[t].key) /\ cache[th[t].key.v] = th[t].ret
              /\ store.k = "json" /\ th[t].key.v \in DOMAIN store.v
              /\ store.v[th[t].key.v] = th[t].ret

-----------------------------------------------------------------------------
(* The rule table of the scorer, rule by rule (checked under SpecClassify). *)

MetaType == meta_field(meta, "type")
MetaVenueType == meta_field(meta, "venue_type")

\* the declared score of a rule, when the rule matches
Rule(matches, score) == IF matches THEN {score} ELSE {}

\* the declared scores of the rules of label l that match a record with the
\* normalized fields t, c, a, u, cr, the surface tcau and the metadata mt, mvt
RuleScores(l, t, c, a, u, cr, tcau, mt, mvt) ==
    CASE l = "patent" ->
            Rule(Populated(row.lens_id), 5)
            \cup Rule(Populated(row.lens_publication_number), 5)
            \cup Rule(Populated(row.lens_family_id), 5)
            \cup Rule(match_any(patent_patterns, tcau), 5)
      [] l = "thesis" ->
            Rule(any_in(thesis_domains, u), 5)
            \cup Rule(Contains("thesis", mt) \/ Contains("dissertation", mt), 5)
            \cup Rule(re_search(thesis_title_pattern, t), 4)
            \cup Rule(match_any(thesis_abstract_patterns, a), 5)
            \cup Rule(Contains("university", c) /\ re_search(thesis_container_pattern, c), 4)
      [] l = "review" ->
            Rule(match_any(survey_phrases, a), 5)
            \cup Rule(re_search(review_title_prefix, t), 5)
            \cup Rule(match_any(review_title_words, t)
                      /\ ~re_search(review_title_excluded, t), 4)
      [] l = "conference" ->
            Rule(match_any(lncs_patterns, tcau), 4)
            \cup Rule(mvt = "conference", 4)
            \cup Rule(Contains("proceedings", t), 4)
      [] l = "book" ->
            Rule(strong_book(c, u, mt), 5)
            \cup Rule(medium_book(t, c, u, cr, mvt), 2)
      [] l = "journal" ->
            Rule(mvt = "journal" \/ Contains("journal-article", cr), 4)
            \cup Rule(Contains("journal", c) \/ Contains("transactions", c), 3)
      [] l = "preprint" ->
            Rule(Contains("researchgate.net", u) \/ Contains("academia.edu", u)
                 \/ Contains("arxiv.org", u), 3)
      [] l = "unknown" -> {}

MatchedScores(l) ==
    RuleScores(l, Title, Container, Abstract, Url, PriorType, Surface, MetaType,
               MetaVenueType)

\* one of the book negative filters applies to a record with container c, prior
\* type cr and enrichment venue type mvt
BookFiltered(c, cr, mvt) ==
    \/ Contains("lncs", c) \/ Contains("lecture notes in computer science", c)
    \/ mvt = "journal" \/ Contains("journal-article", cr)
    \/ Contains("journal", c) \/ Contains("transactions", c)
    \/ Contains("symposium", c) \/ Contains("conference", c)
    \/ Contains("workshop", c) \/ Contains("proceedings", c)

\* C10: every score of the returned map is an integer in 0..5; the score of a
\* label is the maximum of the declared scores of its rules that matched (never
\* their sum); and a label whose rules matched is in the map, book excepted when a
\* negative filter removed it.
C10_ScoreIsMaxOfMatchedRules ==
    Returned =>
        \A t \in {Title}, c \in {Container}, a \in {Abstract}, u \in {Url},
           cr \in {PriorType}, mt \in {MetaType}, mvt \in {MetaVenueType} :
            \A tcau \in {t \o " " \o c \o " " \o a \o " " \o u \o " " \o cr} :
                \A k \in 1..Len(LABEL_PRIORITY) :
                    \A l \in {LABEL_PRIORITY[k]} :
                        \A ms \in {RuleScores(l, t, c, a, u, cr, tcau, mt, mvt)} :
                            /\ l \in LabelSet =>
                                  /\ dict_get(labels, l, 0) \in 0..5
                                  /\ l # "unknown" =>
                                        /\ ms # {}
                                        /\ dict_get(labels, l, 0) = SetMax(ms)
                            /\ (ms # {} /\ ~(l = "book" /\ BookFiltered(c, cr, mvt)))
                                  => l \in LabelSet

\* C10 witness: rules with different declared scores matched for thesis (4 and 5)
\* and for journal (3 and 4); each label carries the larger one.
C10_Witness ==
    /\ Returned
    /\ MatchedScores("thesis") = {4, 5} /\ dict_get(labels, "thesis", 0) = 5
    /\ MatchedScores("journal") = {3, 4} /\ dict_get(labels, "journal", 0) = 4

-----------------------------------------------------------------------------
(* The fallback label (checked under SpecClassify).                        *)

\* a record without any text, URL, patent id or enrichment
EmptyRecord ==
    /\ Title = "" /\ Container = "" /\ Abstract = "" /\ Url = "" /\ PriorType = ""
    /\ ~AnyPatentId
    /\ meta = None

\* C11: the returned map contains "unknown" exactly when it contains no other
\* label; then the map is {unknown: 0} and the top label is "unknown"; and a
\* record with nothing in it comes back that way.
C11_UnknownOnlyWhenAlone ==
    Returned =>
        /\ ("unknown" \in LabelSet) <=> (LabelSet \ {"unknown"} = {})
        /\ ("unknown" \in LabelSet) =>
              /\ labels = <<[label |-> "unknown", score |-> 0]>>
              /\ top_label = "unknown"
        /\ EmptyRecord => "unknown" \in LabelSet

\* C11 witness: the only evidence of the record is an ISBN in the container of a
\* workshop volume; book is scored 5, the workshop filter removes it, and the
\* record comes back as {unknown: 0}.
C11_Witness ==
    /\ Returned
    /\ ~EmptyRecord
    /\ strong_book(Container, Url, MetaType)
    /\ Contains("workshop", Container)
    /\ labels = <<[label |-> "unknown", score |-> 0]>>
    /\ top_label = "unknown"

-----------------------------------------------------------------------------
(* The scorer as a function of the record and its metadata (checked under  *)
(* Spec: refine_csv may meet the same row several times).                  *)

\* the classified records i and j are of the same row with the same metadata
SameInput(i, j) == results[i].row = results[j].row /\ calls[i].value = calls[j].value

-----------------------------------------------------------------------------
(* The classified records refine_csv writes (checked under Spec).          *)

\* the names in a semicolon-joined labels field
RECURSIVE names_of(_)
names_of(s) ==
    LET cut == {i \in 1..Len(s) : At(s, i) = ";"}
    IN  IF cut = {} THEN {s}
        ELSE {SubSeq(s, 1, SetMin(cut) - 1)}
                 \cup names_of(SubSeq(s, SetMin(cut) + 1, Len(s)))

\* the labels of a score map whose score is greater than 0
positive_names(d) == {d[i].label : i \in {j \in 1..Len(d) : d[j].score > 0}}

\* C13: the labels field of every classified record names exactly the labels
\* whose score in the record's score map is greater than 0.
C13_LabelsFieldIsPositiveLabels ==
    \A i \in 1..Len(results) :
        names_of(results[i].labels) = positive_names(results[i].label_confidence)

\* C13, as the code has it: the labels field names exactly the keys of the
\* record's score map, which are the labels with a score greater than 0, or
\* "unknown" alone, with score 0, when no label has one.
C13_LabelsFieldIsMapKeys ==
    \A i \in 1..Len(results) :
        \A d \in {results[i].label_confidence} :
            /\ names_of(results[i].labels) = {d[k].label : k \in 1..Len(d)}
            /\ names_of(results[i].labels) =
                  IF positive_names(d) = {} THEN {"unknown"} ELSE positive_names(d)

\* C13 witness: one classified record carries several labels, all with a positive
\* score, and another one carries "unknown" with score 0.
C13_Witness ==
    \E i, j \in 1..Len(results) :
        /\ Cardinality(names_of(results[i].labels)) >= 2
        /\ names_of(results[i].labels) = positive_names(results[i].label_confidence)
        /\ results[j].labels = "unknown"
        /\ results[j].label_confidence = <<[label |-> "unknown", score |-> 0]>>

-----------------------------------------------------------------------------
(* The order of the lookups of enrich_metadata (checked under Spec).       *)

\* call i found its identifier not cached
Miss(i) == truthy(calls[i].key) /\ ~calls[i].hit
AskedSecondary(i) == Len(calls[i].net) = 2 /\ calls[i].net[2] = "crossref"
FromPrimary(v) == v # None /\ v.source = "openalex"
FromSecondary(v) == v # None /\ v.source = "crossref"

\* C14: on a cache miss the primary service is asked first; the secondary one is
\* asked exactly when the key is a DOI and the primary service gave no payload,
\* so never after a primary payload and never for an arXiv id; the record returned
\* is the primary one when the primary service gave a payload, and a secondary
\* one, with venue_type None, only after the fallback.
C14_PrimaryThenFallback ==
    \A i \in 1..NCalls :
        Miss(i) =>
            /\ calls[i].net # <<>> /\ calls[i].net[1] = "openalex"
            /\ Len(calls[i].net) <= 2
            /\ AskedSecondary(i) <=> (IsDoiKey(calls[i].key) /\ ~calls[i].primary)
            /\ Len(calls[i].net) = 2 => AskedSecondary(i)
            /\ ~calls[i].raised =>
                  /\ calls[i].primary <=> FromPrimary(calls[i].value)
                  /\ FromSecondary(calls[i].value) =>
                        AskedSecondary(i) /\ calls[i].value.venue_type = None
                  /\ calls[i].value # None =>
                        (FromPrimary(calls[i].value) \/ FromSecondary(calls[i].value))

\* C14 witness: in one run a DOI was resolved by the fallback after the primary
\* service gave nothing, an arXiv id got nothing from the primary service and the
\* secondary one was not asked, and a DOI was resolved by the primary service
\* alone.
C14_Witness ==
    \E i, j, k \in 1..NCalls :
        /\ Miss(i) /\ IsDoiKey(calls[i].key) /\ ~calls[i].primary
        /\ AskedSecondary(i) /\ FromSecondary(calls[i].value)
        /\ Miss(j) /\ ~IsDoiKey(calls[j].key) /\ ~calls[j].primary /\ ~calls[j].raised
        /\ calls[j].net = <<"openalex">> /\ calls[j].value = None
        /\ Miss(k) /\ IsDoiKey(calls[k].key) /\ FromPrimary(calls[k].value)
        /\ calls[k].net = <<"openalex">>

-----------------------------------------------------------------------------
(* What a call of enrich_metadata writes (checked under Spec).             *)

\* the key the claim gives the URL of the current row
KeyOfRow == cache_key(extract_doi_from_url(row.citing_url), extract_arxiv_id(row.citing_url))

\* the step from pc = "enrich" is a call that found the key k not cached: the
\* outcome is in the cache under k, nothing else changed, and the file holds
\* the cache
WroteAndPersisted(k) ==
    /\ DOMAIN cache' = DOMAIN cache \cup {k.v}
    /\ cache'[k.v] = calls'[Len(calls')].value
    /\ \A x \in DOMAIN cache : cache'[x] = cache[x]
    /\ store' = json_dump(cache')

\* the step left the cache and the file alone and made no request
LeftAlone == cache' = cache /\ store' = store /\ calls'[Len(calls')].net = <<>>

\* C15: a call of enrich_metadata writes the outcome under the key and dumps the
\* cache to the file exactly when the URL has an identifier whose key is not
\* cached; otherwise cache and file stay as they are and no request is made.
C15_WritesExactlyOnMiss ==
    [][pc = "enrich" =>
          \A k \in {KeyOfRow} :
              IF truthy(k) /\ k.v \notin DOMAIN cache
              THEN WroteAndPersisted(k)
              ELSE LeftAlone]_vars

\* C15 for the calls that return: the same, the calls that raise left out
C15_WritesExactlyOnMissWhenReturning ==
    [][(pc = "enrich" /\ pc' # "crashed") =>
          \A k \in {KeyOfRow} :
              IF truthy(k) /\ k.v \notin DOMAIN cache
              THEN WroteAndPersisted(k) /\ meta' = cache'[k.v]
              ELSE LeftAlone]_vars

-----------------------------------------------------------------------------
(* Failures of the services (checked under Spec).                          *)

\* C16: whatever a service answers (timeout, error status, undecodable or
\* unexpectedly shaped payload), no call of enrich_metadata raises: the run never
\* stops in the middle of a row, and every row that was enriched gets classified.
C16_FailuresAreSwallowed ==
    /\ pc # "crashed"
    /\ \A i \in 1..NCalls : ~calls[i].raised
    /\ pc = "loop" => Len(results) = NCalls

-----------------------------------------------------------------------------
(* Rules of the scorer, one by one (checked under SpecClassify).           *)

\* a jurisdiction+number token as it reads in lower-cased text: the country
\* code patterns of the patent rule, in lower case
jurisdiction_tokens == <<
    <<WB, Lit("us"), Rep(DashSpace, 0, Inf), Rep(Digits, 1, Inf), Rep(DashSpace, 0, Inf),
      Rep({"a", "b"}, 1, 1), Rep(Digits, 1, Inf), WB>>,
    <<WB, Lit("ep"), Rep(DashSpace, 0, Inf), Rep(Digits, 1, Inf), WB>>,
    <<WB, Lit("wo"), Rep(DashSpace, 0, Inf), Rep(Digits, 1, Inf), WB>>,
    <<WB, Lit("cn"), Rep(DashSpace, 0, Inf), Rep(Digits, 1, Inf), WB>>,
    <<WB, Lit("kr"), Rep(DashSpace, 0, Inf), Rep(Digits, 1, Inf), WB>>,
    <<WB, Lit("jp"), Rep(DashSpace, 0, Inf), Rep(Digits, 1, Inf), WB>> >>

\* C17: a record whose lower-cased surface holds a jurisdiction+number token is
\* scored patent 5 and gets top label "patent", with or without a patent id
\* field or a patent-office domain.
C17_JurisdictionTokenIsPatent ==
    (Returned /\ match_any(jurisdiction_tokens, Surface)) =>
        (dict_get(labels, "patent", 0) = 5 /\ top_label = "patent")

\* the URL of the record, as given, carries the k-th book-associated DOI prefix
CarriesPrefix(k) ==
    row.citing_url.k = "str" /\ Contains(strong_doi_prefixes[k], row.citing_url.v)

\* C18: for each configured book-associated DOI prefix, a record whose URL carries
\* it, and to which no book negative filter applies, has book with score 5.
C18_BookPrefixScoresFive ==
    Returned =>
        \A k \in 1..Len(strong_doi_prefixes) :
            (CarriesPrefix(k) /\ ~BookFiltered(Container, PriorType, MetaVenueType))
                => dict_get(labels, "book", 0) = 5

\* C19: the returned map has conference, with score 4, exactly when the container
\* matches a lecture-notes series pattern, or the enrichment venue type is
\* conference, or "proceedings" is in the title; what the other fields hold does
\* not produce the label.
C19_ConferenceFromContainerOnly ==
    Returned =>
        /\ ("conference" \in LabelSet) <=>
              \/ match_any(lncs_patterns, Container)
              \/ MetaVenueType = "conference"
              \/ Contains("proceedings", Title)
        /\ ("conference" \in LabelSet) => dict_get(labels, "conference", 0) = 4

\* C19, as the code has it: the returned map has conference, with score 4,
\* exactly when the combined surface (title, container, abstract, URL and prior
\* type) matches a lecture-notes series pattern, or the enrichment venue type is
\* conference, or "proceedings" is in the title.
C19_ConferenceFromSurface ==
    Returned =>
        \A tcau \in {Surface} :
            /\ ("conference" \in LabelSet) <=>
                  \/ match_any(lncs_patterns, tcau)
                  \/ MetaVenueType = "conference"
                  \/ Contains("proceedings", Title)
            /\ ("conference" \in LabelSet) => dict_get(labels, "conference", 0) = 4

\* C19 witness: conference 4 comes from the URL alone: the container matches no
\* pattern, the venue type is not conference, the title has no "proceedings".
C19_Witness ==
    /\ Returned
    /\ dict_get(labels, "conference", 0) = 4
    /\ ~match_any(lncs_patterns, Container)
    /\ MetaVenueType # "conference"
    /\ ~Contains("proceedings", Title)
    /\ match_any(lncs_patterns, Url)

\* C20: no returned map has both book and journal, so the order of the two in
\* LABEL_PRIORITY never decides a top label: a record with journal has no book,
\* whatever book evidence it carries.
C20_NeverBookAndJournal ==
    Returned =>
        /\ ~("book" \in LabelSet /\ "journal" \in LabelSet)
        /\ top_label = "journal" => "book" \notin LabelSet
        /\ top_label = "book" => "journal" \notin LabelSet

\* C20 witness: strong book evidence (an ISBN in the container) on a record whose
\* prior type or venue type, not its container, makes it a journal article:
\* journal is scored 4 and book is gone.
C20_Witness ==
    /\ Returned
    /\ re_search(isbn_pattern, Container)
    /\ ~Contains("journal", Container) /\ ~Contains("transactions", Container)
    /\ ~Contains("workshop", Container) /\ ~Contains("lncs", Container)
    /\ dict_get(labels, "journal", 0) = 4
    /\ "book" \notin LabelSet

====
